---- MODULE Spec2Model ----
(***************************************************************************)
(* Model of the MovingAverage library: the windowed statistics engine of   *)
(* examples/Filters/MovingAverage.h and the skip list of src/SkipList.h    *)
(* (examples/Filters/SkipList.h has the same insert and remove and its own *)
(* getMedian and at).                                                       *)
(*                                                                         *)
(* Pointers are node identifiers: Null is nullptr, HeaderPtr the header,   *)
(* every new node gets the next unused identifier.  A forward array        *)
(* next[0..level] of the code is the sequence next[1..level+1] here.       *)
(***************************************************************************)
EXTENDS Integers, Sequences, FiniteSets, TLC

\* ------------------------------------------------------------- bounds
MaxLevel == 2          \* SpecSkipList: largest max_lvl handed to the constructor
MaxAllocs == 3         \* SpecSkipList: nodes the skip list allocates in one run
RandBits == 2          \* SpecSkipList: rand() outcomes drawn per insert
MaxAdds == 2           \* Spec: add calls in one run
MaxWindowSize == 2     \* Spec: largest window_size argument
MaxAddsW == 3          \* SpecFixedW, SpecMedian: add calls in one run
MaxWindowSizeW == 3    \* SpecFixedW, SpecMedian: largest window_size argument
MedianRandBits == 1    \* rand() outcomes drawn per readMovingMedian
MaxConsecutive == 2    \* largest consecutive_matches handed to detectedPeak
MaxCumulativeReads == 3 \* SpecCumulative: enabled readCumulativeAverage calls in one run
MaxVectorSize == 3     \* SpecVector: elements the vector holds at a time

\* once the drawn outcomes are used up rand() returns odd numbers
Values == {1, 2}       \* Spec, SpecFixedW: samples handed to add
ValuesW == {1, 2, 3}   \* SpecMedian: samples handed to add
SLValues == {1, 2, 3}  \* values handed to insert, remove
Alphas == {<<0, 1>>, <<1, 2>>, <<1, 1>>}  \* smoothing factors, <<num, den>>
SomeAlphas == {<<1, 2>>, <<1, 1>>}       \* Spec, SpecLegacy: smoothing factors
HalfAlpha == {<< 1, 2 >>}              \* Spec: the smoothing factor 1/2
Thresholds == {2}      \* thresholds handed to detectedPeak
Consecutives == 1..MaxConsecutive
Indeterminate == {0, 1}  \* what a member that was never initialised may hold
WindowSizes == 1..MaxWindowSize
WindowSizes0 == 0..MaxWindowSize
ExpValues == {0 - 3, 8}     \* SpecExponential: samples handed to add
SignedValues == {0 - 2, 1}  \* SpecSigned: samples handed to add
SizeTBits == {16, 32}       \* SpecSigned: widths of size_t
WindowSizesW == 1..MaxWindowSizeW
Indexes == (0 - 1)..Cardinality(SLValues)  \* indexes handed to at
Untouched == 0 - 1     \* what the output argument of at holds before the call
RandStreams == [1..RandBits -> {0, 1}]        \* rand() % 2, call by call
MedianStreams == [1..MedianRandBits -> {0, 1}]
FirstCoins == {<< 1 >>}           \* Spec: rand() % 2 of the first insert of a median read

Min(a, b) == IF a < b THEN a ELSE b

\* ------------------------------------------------------------- Vector
Null == 0
HeaderPtr == 1

\* Vector::resize(count): new elements are T(), excess elements dropped
VectorResize(v, count) ==
    IF count > Len(v)
    THEN v \o [k \in 1..(count - Len(v)) |-> Null]
    ELSE SubSeq(v, 1, count)

\* Vector::push_back
push_back(v, value) == Append(v, value)

\* Vector::erase(begin()) on a non-empty vector
erase_begin(v) == SubSeq(v, 2, Len(v))

\* Vector(): no storage
EmptyVector == [data |-> << >>, size |-> 0, capacity |-> 0]

\* grow copying all elements but the last (mutation of grow)
growShort(v, min_capacity, junk) ==
    LET doubled == IF v.capacity = 0 THEN 1 ELSE v.capacity * 2
        new_capacity == IF doubled < min_capacity THEN min_capacity ELSE doubled
    IN  [v EXCEPT !.data = [i \in 1..new_capacity |->
                               IF i <= v.size - 1 THEN v.data[i] ELSE junk],
                  !.capacity = new_capacity]

\* Vector::grow: new T[new_capacity] holds indeterminate values, junk, where
\* the loop copies nothing
grow(v, min_capacity, junk) ==
    LET doubled == IF v.capacity = 0 THEN 1 ELSE v.capacity * 2
        new_capacity == IF doubled < min_capacity THEN min_capacity ELSE doubled
    IN  [v EXCEPT !.data = [i \in 1..new_capacity |->
                               IF i <= v.size THEN v.data[i] ELSE junk],
                  !.capacity = new_capacity]

\* Vector::push_back on the object with its storage
Vector_push_back(v, value, junk) ==
    LET g == IF v.size = v.capacity THEN grow(v, v.size + 1, junk) ELSE v
    IN  [g EXCEPT !.data[g.size + 1] = value, !.size = g.size + 1]

\* the for loop of Vector::erase(pos), from i on
RECURSIVE EraseShift(_, _, _)
EraseShift(data, i, size) ==
    IF i < size - 1
    THEN EraseShift([data EXCEPT ![i + 1] = data[i + 2]], i + 1, size)
    ELSE data

\* Vector::erase(pos), index = pos - data_, on a vector that is not empty
Vector_erase(v, index) ==
    [v EXCEPT !.data = EraseShift(v.data, index, v.size), !.size = v.size - 1]

\* ------------------------------------------------------------- SkipList
SkipListNode(val, level) ==
    [value |-> val, next |-> [i \in 1..(level + 1) |-> Null], live |-> TRUE]

\* what is left of a node after delete
DeletedNode == [value |-> 0, next |-> << >>, live |-> FALSE]

\* max_level set one above the level of the header (mutation of SkipList)
SkipListAboveHeader(max_lvl) ==
    [max_level |-> max_lvl + 1,
     nodes |-> << SkipListNode(0, max_lvl) >>,
     update |-> << >>]

SkipList(max_lvl) ==
    [max_level |-> max_lvl,
     nodes |-> << SkipListNode(0, max_lvl) >>,
     update |-> << >>]

\* randomLevel: rnd holds the coming outcomes of rand() % 2 (odd once it is used up)
RECURSIVE randomLevelFrom(_, _, _)
randomLevelFrom(rnd, level, max_level) ==
    IF rnd # << >> /\ Head(rnd) = 0 /\ level < max_level
    THEN randomLevelFrom(Tail(rnd), level + 1, max_level)
    ELSE [level |-> level, rnd |-> IF rnd = << >> THEN rnd ELSE Tail(rnd)]

randomLevel(rnd, max_level) == randomLevelFrom(rnd, 0, max_level)

\* the search loop stepping over an equal value too (mutation of Advance)
RECURSIVE AdvancePast(_, _, _, _)
AdvancePast(nodes, current, i, val) ==
    LET n == nodes[current].next[i + 1] IN
    IF n # Null /\ nodes[n].value <= val
    THEN AdvancePast(nodes, n, i, val)
    ELSE current

\* while (current->next[i] != nullptr && current->next[i]->value < val)
RECURSIVE Advance(_, _, _, _)
Advance(nodes, current, i, val) ==
    LET n == nodes[current].next[i + 1] IN
    IF n # Null /\ nodes[n].value < val
    THEN Advance(nodes, n, i, val)
    ELSE current

\* insert's search loop, levels i down to 0
RECURSIVE InsertSearch(_, _, _, _, _)
InsertSearch(nodes, upd, current, i, val) ==
    IF i < 0
    THEN [update |-> upd, current |-> current]
    ELSE LET c == Advance(nodes, current, i, val) IN
         InsertSearch(nodes, [upd EXCEPT ![i + 1] = c], c, i - 1, val)

\* insert's splice loop, levels i up to new_level
RECURSIVE Splice(_, _, _, _, _)
Splice(nodes, upd, newNode, i, new_level) ==
    IF i > new_level
    THEN nodes
    ELSE LET p == upd[i + 1] IN
         Splice([nodes EXCEPT ![newNode].next[i + 1] = nodes[p].next[i + 1],
                              ![p].next[i + 1] = newNode],
                upd, newNode, i + 1, new_level)

\* no test for a value already stored (mutation of IsAbsent)
IsAbsentAlways(nodes, current, val) == TRUE

\* if (current == nullptr || current->value != val)
IsAbsent(nodes, current, val) == current = Null \/ nodes[current].value # val

\* max_level put back to the level of the header by every insert that creates
\* a node (mutation of insertLevel)
insertLevelRaising(sl, val, new_level) ==
    LET upd0 == VectorResize(sl.update, sl.max_level + 1)
        s == InsertSearch(sl.nodes, upd0, HeaderPtr, sl.max_level, val)
        current == sl.nodes[s.current].next[1]
    IN  IF IsAbsent(sl.nodes, current, val)
        THEN LET grows == new_level > sl.max_level
                 upd1 == IF grows
                         THEN [VectorResize(s.update, new_level + 1)
                                 EXCEPT ![sl.max_level + 2] = HeaderPtr]
                         ELSE s.update
                 newNode == Len(sl.nodes) + 1
                 nodes1 == Append(sl.nodes, SkipListNode(val, new_level))
             IN  [max_level |-> Len(sl.nodes[HeaderPtr].next) - 1,
                  nodes |-> Splice(nodes1, upd1, newNode, 0, new_level),
                  update |-> upd1]
        ELSE [sl EXCEPT !.update = s.update]

insertLevel(sl, val, new_level) ==
    LET upd0 == VectorResize(sl.update, sl.max_level + 1)
        s == InsertSearch(sl.nodes, upd0, HeaderPtr, sl.max_level, val)
        current == sl.nodes[s.current].next[1]
    IN  IF IsAbsent(sl.nodes, current, val)
        THEN LET grows == new_level > sl.max_level
                 upd1 == IF grows
                         THEN [VectorResize(s.update, new_level + 1)
                                 EXCEPT ![sl.max_level + 2] = HeaderPtr]
                         ELSE s.update
                 newNode == Len(sl.nodes) + 1
                 nodes1 == Append(sl.nodes, SkipListNode(val, new_level))
             IN  [max_level |-> IF grows THEN new_level ELSE sl.max_level,
                  nodes |-> Splice(nodes1, upd1, newNode, 0, new_level),
                  update |-> upd1]
        ELSE [sl EXCEPT !.update = s.update]

\* SkipList::insert: the list after insert(val), and what is left of rnd
insert(sl, val, rnd) ==
    LET r == randomLevel(rnd, sl.max_level) IN
    [sl |-> insertLevel(sl, val, r.level), rnd |-> r.rnd]

\* any value the search stops at taken for val (mutation of Hit)
HitAnyNext(nodes, c, i, val) == nodes[c].next[i + 1] # Null

\* if (current->next[i] != nullptr && current->next[i]->value == val)
Hit(nodes, c, i, val) ==
    LET n == nodes[c].next[i + 1] IN n # Null /\ nodes[n].value = val

\* remove's search loop, levels i down to 0
RECURSIVE RemoveSearch(_, _, _, _, _, _)
RemoveSearch(nodes, upd, current, i, val, found) ==
    IF i < 0
    THEN [update |-> upd, found |-> found]
    ELSE LET c == Advance(nodes, current, i, val)
             hit == Hit(nodes, c, i, val)
         IN  RemoveSearch(nodes, IF hit THEN [upd EXCEPT ![i + 1] = c] ELSE upd,
                          c, i - 1, val, found \/ hit)

\* remove's relink loop, levels i up to max_level
RECURSIVE Relink(_, _, _, _, _)
Relink(nodes, upd, current, i, max_level) ==
    IF i > max_level
    THEN nodes
    ELSE IF nodes[upd[i + 1]].next[i + 1] # current
    THEN nodes
    ELSE Relink([nodes EXCEPT ![upd[i + 1]].next[i + 1] = nodes[current].next[i + 1]],
                upd, current, i + 1, max_level)

\* an if in place of the while (mutation of Shrink)
ShrinkOnce(nodes, max_level) ==
    IF max_level > 0 /\ nodes[HeaderPtr].next[max_level + 1] = Null
    THEN max_level - 1
    ELSE max_level

\* while (max_level > 0 && header->next[max_level] == nullptr) max_level--
RECURSIVE Shrink(_, _)
Shrink(nodes, max_level) ==
    IF max_level > 0 /\ nodes[HeaderPtr].next[max_level + 1] = Null
    THEN Shrink(nodes, max_level - 1)
    ELSE max_level

\* remove without its delete current (mutation of remove)
removeKeepsNode(sl, val) ==
    LET s == RemoveSearch(sl.nodes, sl.update, HeaderPtr, sl.max_level, val, FALSE)
    IN  IF ~s.found
        THEN [sl |-> sl, ret |-> FALSE]
        ELSE LET current == sl.nodes[s.update[1]].next[1]
                 nodes1 == Relink(sl.nodes, s.update, current, 0, sl.max_level)
             IN  [sl |-> [max_level |-> Shrink(nodes1, sl.max_level),
                          nodes |-> nodes1,
                          update |-> s.update],
                  ret |-> TRUE]

\* remove searching with a copy of update and leaving the member as it was
\* (mutation of remove)
removeLocalUpdate(sl, val) ==
    LET s == RemoveSearch(sl.nodes, sl.update, HeaderPtr, sl.max_level, val, FALSE)
    IN  IF ~s.found
        THEN [sl |-> sl, ret |-> FALSE]
        ELSE LET current == sl.nodes[s.update[1]].next[1]
                 nodes1 == Relink(sl.nodes, s.update, current, 0, sl.max_level)
             IN  [sl |-> [max_level |-> Shrink(nodes1, sl.max_level),
                          nodes |-> [nodes1 EXCEPT ![current] = DeletedNode],
                          update |-> sl.update],
                  ret |-> TRUE]

\* SkipList::remove: the list after remove(val), and the value returned
remove(sl, val) ==
    LET s == RemoveSearch(sl.nodes, sl.update, HeaderPtr, sl.max_level, val, FALSE)
    IN  IF ~s.found
        THEN [sl |-> sl, ret |-> FALSE]
        ELSE LET current == sl.nodes[s.update[1]].next[1]
                 nodes1 == Relink(sl.nodes, s.update, current, 0, sl.max_level)
             IN  [sl |-> [max_level |-> Shrink(nodes1, sl.max_level),
                          nodes |-> [nodes1 EXCEPT ![current] = DeletedNode],
                          update |-> s.update],
                  ret |-> TRUE]

\* the while loop of ~SkipList from node p on: twice tells that the walk came
\* to a node that had been deleted before
RECURSIVE destructorFrom(_, _)
destructorFrom(nodes, p) ==
    IF p = Null THEN [nodes |-> nodes, twice |-> FALSE]
    ELSE IF ~nodes[p].live THEN [nodes |-> nodes, twice |-> TRUE]
    ELSE destructorFrom([nodes EXCEPT ![p] = DeletedNode], nodes[p].next[1])

\* SkipList::~SkipList: the nodes after the walk along level 0 and delete header
destructor(sl) ==
    LET r == destructorFrom(sl.nodes, sl.nodes[HeaderPtr].next[1]) IN
    [nodes |-> [r.nodes EXCEPT ![HeaderPtr] = DeletedNode], twice |-> r.twice]

\* the values on the forward chain of level i, from node p on
RECURSIVE ChainFrom(_, _, _)
ChainFrom(nodes, p, i) ==
    IF p = Null THEN << >>
    ELSE << nodes[p].value >> \o ChainFrom(nodes, nodes[p].next[i + 1], i)

Chain(sl, i) == ChainFrom(sl.nodes, sl.nodes[HeaderPtr].next[i + 1], i)

\* the count taken along the topmost link of every node (mutation of CountFrom)
RECURSIVE CountFromTop(_, _)
CountFromTop(nodes, p) ==
    IF p = Null THEN 0
    ELSE 1 + CountFromTop(nodes, nodes[p].next[Len(nodes[p].next)])

\* the counting loop of getMedian
RECURSIVE CountFrom(_, _)
CountFrom(nodes, p) ==
    IF p = Null THEN 0 ELSE 1 + CountFrom(nodes, nodes[p].next[1])

\* for (i = 0; i < steps; i++) current = current->next[0]
RECURSIVE Walk(_, _, _)
Walk(nodes, p, steps) ==
    IF steps = 0 THEN p ELSE Walk(nodes, nodes[p].next[1], steps - 1)

\* the lower of two middle elements (mutation of MedianSteps)
MedianStepsLower(count) == (count - 1) \div 2

\* i < count / 2
MedianSteps(count) == count \div 2

\* SkipList::getMedian of src/SkipList.h: thrown is std::out_of_range
getMedian(sl) ==
    LET count == CountFrom(sl.nodes, sl.nodes[HeaderPtr].next[1]) IN
    IF count = 0
    THEN [thrown |-> TRUE, value |-> 0]
    ELSE [thrown |-> FALSE,
          value |-> sl.nodes[Walk(sl.nodes, sl.nodes[HeaderPtr].next[1],
                                  MedianSteps(count))].value]

\* SkipList::getMedian of examples/Filters/SkipList.h: T() on an empty list
getMedianFilters(sl) ==
    LET count == CountFrom(sl.nodes, sl.nodes[HeaderPtr].next[1]) IN
    IF count = 0
    THEN 0
    ELSE sl.nodes[Walk(sl.nodes, sl.nodes[HeaderPtr].next[1],
                       MedianSteps(count))].value

\* the walk counting from 1 (mutation of AtFrom)
RECURSIVE AtFromOneBased(_, _, _, _)
AtFromOneBased(nodes, p, count, index) ==
    IF p = Null THEN [thrown |-> TRUE, value |-> 0]
    ELSE IF count + 1 = index THEN [thrown |-> FALSE, value |-> nodes[p].value]
    ELSE AtFromOneBased(nodes, nodes[p].next[1], count + 1, index)

\* SkipList::at of src/SkipList.h
RECURSIVE AtFrom(_, _, _, _)
AtFrom(nodes, p, count, index) ==
    IF p = Null THEN [thrown |-> TRUE, value |-> 0]
    ELSE IF count = index THEN [thrown |-> FALSE, value |-> nodes[p].value]
    ELSE AtFrom(nodes, nodes[p].next[1], count + 1, index)

at(sl, index) == AtFrom(sl.nodes, sl.nodes[HeaderPtr].next[1], 0, index)

\* SkipList::at of examples/Filters/SkipList.h: value is the output argument
RECURSIVE AtFromFilters(_, _, _, _, _)
AtFromFilters(nodes, p, count, index, value) ==
    IF p = Null THEN [ok |-> FALSE, value |-> value]
    ELSE IF count = index THEN [ok |-> TRUE, value |-> nodes[p].value]
    ELSE AtFromFilters(nodes, nodes[p].next[1], count + 1, index, value)

atFilters(sl, index, value) ==
    AtFromFilters(sl.nodes, sl.nodes[HeaderPtr].next[1], 0, index, value)

\* ------------------------------------------------------------- state
VARIABLES
    enabled, window_updated,
    simple_moving_average_calculated, cumulative_average_calculated,
    weighted_moving_average_calculated, exponential_moving_average_calculated,
    moving_median_calculated,
    input,
    simple_moving_average, cumulative_average, weighted_moving_average,
    exponential_moving_average, moving_median,
    window, cumulative_data,
    fault,     \* "none", or the undefined operation that ended the run
    ret,       \* the engine's last call and the value it returned: [op, val]
    at_end,    \* << engine >> as end() found it enabled, << >> after begin or add
    wfix,      \* the one window_size of a run of SpecFixedW, 0 otherwise
    size_bits, \* the width of size_t on the target: 16 (AVR) or 32 (ARM, ESP32)
    begun,     \* begin() has been called on the engine
    other,     \* the members of a second MovingAverage object, << >> without one
    matches,   \* static uint8_t matches of detectedPeak
    legacy,    \* the function-local statics of the reads of src/MovingAverage.h
    sl,        \* a SkipList object
    sl_ret,    \* the skip list's last call: [op, arg, flag, val]
    stored,    \* the values inserted into sl and not removed since
    vec,       \* a Vector<U> object: [data, size, capacity]
    fifo       \* the values pushed to vec and not erased since, oldest first

calculated ==
    << simple_moving_average_calculated, cumulative_average_calculated,
       weighted_moving_average_calculated, exponential_moving_average_calculated,
       moving_median_calculated >>

averages ==
    << simple_moving_average, cumulative_average, weighted_moving_average,
       exponential_moving_average, moving_median >>

\* every member of a MovingAverage object
engine == << enabled, window_updated, calculated, input, averages, window,
             cumulative_data >>

slvars == << sl, sl_ret, stored >>

vecvars == << vec, fifo >>

\* what stays the same for a whole run
run == << wfix, size_bits >>

\* objects with static storage duration
statics == << matches, legacy >>

vars == << engine, fault, ret, at_end, run, other, vecvars, begun, statics, slvars >>

\* ------------------------------------------------------------- MovingAverage
\* static_cast<U>(x), U = int16_t
ToU(x) == ((x + 32768) % 65536) - 32768

\* C++ integer division, truncated toward zero
TruncDiv(a, b) ==
    IF a >= 0 THEN (IF b > 0 THEN a \div b ELSE 0 - (a \div (0 - b)))
    ELSE (IF b > 0 THEN 0 - ((0 - a) \div b) ELSE (0 - a) \div (0 - b))

\* static_cast<U>(sum / size()): sum is a signed integer of 32 bits, size() a
\* size_t of bits bits.  A size_t of 16 bits is converted to the type of sum;
\* with a size_t of 32 bits sum is converted to unsigned, a negative sum to
\* 2^32 + sum = size * 4q + 4r + sum, where 2^30 = size * q + r.
QuotientBySize(sum, size, bits) ==
    IF bits < 32 \/ sum >= 0
    THEN ToU(TruncDiv(sum, size))
    ELSE LET q == 1073741824 \div size
             r == 1073741824 % size
         IN  ToU(4 * (q % 16384) + ((4 * r + sum) \div size))

RECURSIVE SumSeq(_)
SumSeq(s) == IF s = << >> THEN 0 ELSE Head(s) + SumSeq(Tail(s))

\* weighted_sum and weight_total of readWeightedAverage, from index i on
RECURSIVE WeightedSum(_, _)
WeightedSum(w, i) ==
    IF i > Len(w) THEN 0 ELSE w[i] * i + WeightedSum(w, i + 1)

\* every weight taken as 1 (mutation of WeightTotal)
WeightTotalFlat(n) == n

WeightTotal(n) == SumSeq([i \in 1..n |-> i])

\* updateWindow with the capacity test off by one (mutation of updateWindow)
updateWindowOffByOne(win, in, window_size) ==
    IF Len(win) <= window_size
    THEN push_back(win, ToU(in))
    ELSE push_back(erase_begin(win), ToU(in))

\* a window cut down to window_size elements (mutation of updateWindow)
updateWindowToSize(win, in, window_size) ==
    IF Len(win) < window_size
    THEN push_back(win, ToU(in))
    ELSE push_back(SubSeq(win, Len(win) - window_size + 2, Len(win)), ToU(in))

\* MovingAverage::updateWindow: the window after the call
updateWindow(win, in, window_size) ==
    IF Len(win) < window_size
    THEN push_back(win, ToU(in))
    ELSE push_back(erase_begin(win), ToU(in))

\* updateWindow takes its else branch and finds nothing to erase
ErasesEmpty(win, window_size) == ~(Len(win) < window_size) /\ win = << >>

\* a sync on every read (mutation of Synced)
SyncedAlways(window_size) == updateWindow(window, input, window_size)

\* if (!window_updated) updateWindow(window_size);
Synced(window_size) ==
    IF ~window_updated THEN updateWindow(window, input, window_size) ELSE window

\* the for loop of readMovingMedian: insert window[k..] into the skip list
RECURSIVE InsertWindow(_, _, _, _)
InsertWindow(list, win, k, rnd) ==
    IF k > Len(win) THEN list
    ELSE LET r == insert(list, win[k], rnd) IN
         InsertWindow(r.sl, win, k + 1, r.rnd)

Call(op, val) == [op |-> op, val |-> val]

\* a call whose argument the properties refer to
CallWith(op, arg, val) == [op |-> op, arg |-> arg, val |-> val]

begin ==
    /\ fault = "none"
    /\ enabled' = TRUE
    /\ ret' = Call("begin", 0)
    /\ at_end' = << >>
    /\ begun' = TRUE
    /\ UNCHANGED << window_updated, calculated, input, averages, window,
                    cumulative_data, fault, run, other, vecvars, statics, slvars >>

end ==
    /\ fault = "none"
    /\ enabled' = FALSE
    /\ ret' = Call("end", 0)
    /\ at_end' = IF enabled THEN << engine >> ELSE at_end
    /\ UNCHANGED << window_updated, calculated, input, averages, window,
                    cumulative_data, fault, run, other, vecvars, begun, statics, slvars >>

\* add that leaves window_updated as it is (mutation of add)
addKeepsSynced(in) ==
    /\ fault = "none"
    /\ input' = in
    /\ cumulative_data' = push_back(cumulative_data, ToU(in))
    /\ ret' = Call("add", 0)
    /\ at_end' = << >>
    /\ UNCHANGED << enabled, window_updated, calculated, averages, window, fault,
                    run, other, vecvars, begun, statics, slvars >>

add(in) ==
    /\ fault = "none"
    /\ input' = in
    /\ cumulative_data' = push_back(cumulative_data, ToU(in))
    /\ window_updated' = FALSE
    /\ ret' = Call("add", 0)
    /\ at_end' = << >>
    /\ UNCHANGED << enabled, calculated, averages, window, fault, run, other, vecvars, begun, statics, slvars >>

readAverage(window_size) ==
    /\ fault = "none"
    /\ IF ~enabled
       THEN /\ ret' = CallWith("readAverage", window_size, 0)
            /\ UNCHANGED << engine, fault, at_end, run, other, vecvars, begun, statics, slvars >>
       ELSE IF ~window_updated /\ ErasesEmpty(window, window_size)
       THEN \* erase(begin()) of a vector without storage: undefined, the run ends here
            /\ fault' = "erase on an empty vector"
            /\ ret' = CallWith("readAverage", window_size, 0)
            /\ UNCHANGED << engine, at_end, run, other, vecvars, begun, statics, slvars >>
       ELSE LET win == Synced(window_size)
                avg == QuotientBySize(SumSeq(win), Len(win), size_bits)
            IN  /\ window' = win
                /\ simple_moving_average' = avg
                /\ window_updated' = TRUE
                /\ simple_moving_average_calculated' = TRUE
                /\ ret' = CallWith("readAverage", window_size, avg)
                /\ UNCHANGED << enabled, input, cumulative_data,
                                cumulative_average, weighted_moving_average,
                                exponential_moving_average, moving_median,
                                cumulative_average_calculated,
                                weighted_moving_average_calculated,
                                exponential_moving_average_calculated,
                                moving_median_calculated, fault, at_end, run, other, vecvars, begun, statics, slvars >>

readCumulativeAverage ==
    /\ fault = "none"
    /\ IF ~enabled
       THEN /\ ret' = Call("readCumulativeAverage", 0)
            /\ UNCHANGED << engine, fault, at_end, run, other, vecvars, begun, statics, slvars >>
       ELSE IF cumulative_data = << >>
       THEN \* sum / 0: undefined, the run ends here
            /\ fault' = "division by zero"
            /\ ret' = Call("readCumulativeAverage", 0)
            /\ UNCHANGED << engine, at_end, run, other, vecvars, begun, statics, slvars >>
       ELSE LET avg == QuotientBySize(SumSeq(cumulative_data),
                                      Len(cumulative_data), size_bits)
            IN  /\ cumulative_average' = avg
                /\ cumulative_average_calculated' = TRUE
                /\ ret' = Call("readCumulativeAverage", avg)
                /\ UNCHANGED << enabled, window_updated, input, window,
                                cumulative_data, simple_moving_average,
                                weighted_moving_average,
                                exponential_moving_average, moving_median,
                                simple_moving_average_calculated,
                                weighted_moving_average_calculated,
                                exponential_moving_average_calculated,
                                moving_median_calculated, fault, at_end, run, other, vecvars, begun, statics, slvars >>

readWeightedAverage(window_size) ==
    /\ fault = "none"
    /\ IF ~enabled
       THEN /\ ret' = CallWith("readWeightedAverage", window_size, 0)
            /\ UNCHANGED << engine, fault, at_end, run, other, vecvars, begun, statics, slvars >>
       ELSE IF ~window_updated /\ ErasesEmpty(window, window_size)
       THEN \* erase(begin()) of a vector without storage: undefined, the run ends here
            /\ fault' = "erase on an empty vector"
            /\ ret' = CallWith("readWeightedAverage", window_size, 0)
            /\ UNCHANGED << engine, at_end, run, other, vecvars, begun, statics, slvars >>
       ELSE LET win == Synced(window_size)
                avg == ToU(TruncDiv(WeightedSum(win, 1), WeightTotal(Len(win))))
            IN  /\ window' = win
                /\ weighted_moving_average' = avg
                /\ window_updated' = TRUE
                /\ weighted_moving_average_calculated' = TRUE
                /\ ret' = CallWith("readWeightedAverage", window_size, avg)
                /\ UNCHANGED << enabled, input, cumulative_data,
                                simple_moving_average, cumulative_average,
                                exponential_moving_average, moving_median,
                                simple_moving_average_calculated,
                                cumulative_average_calculated,
                                exponential_moving_average_calculated,
                                moving_median_calculated, fault, at_end, run, other, vecvars, begun, statics, slvars >>

\* the weights of the input and of the previous average exchanged (mutation of Blend)
BlendExchanged(a, x, prev) ==
    ToU(TruncDiv((a[2] - a[1]) * x + a[1] * prev, a[2]))

\* smoothing_factor * input + (1 - smoothing_factor) * exponential_moving_average
\* assigned to a U: smoothing_factor = a[1] / a[2], the float sum is exact for
\* these operands, the assignment truncates it toward zero
Blend(a, x, prev) ==
    ToU(TruncDiv(a[1] * x + (a[2] - a[1]) * prev, a[2]))

readExponentialAverageEnabled(a) ==
            LET avg == Blend(a, input, exponential_moving_average)
            IN  /\ exponential_moving_average' = avg
                /\ exponential_moving_average_calculated' = TRUE
                /\ ret' = CallWith("readExponentialAverage", a, avg)
                /\ UNCHANGED << enabled, window_updated, input, window,
                                cumulative_data, simple_moving_average,
                                cumulative_average, weighted_moving_average,
                                moving_median,
                                simple_moving_average_calculated,
                                cumulative_average_calculated,
                                weighted_moving_average_calculated,
                                moving_median_calculated, fault, at_end, run, other, vecvars, begun, statics, slvars >>

\* the read without its test of enabled (mutation of readExponentialAverage)
readExponentialAverageUngated(a) ==
    /\ fault = "none"
    /\ readExponentialAverageEnabled(a)

readExponentialAverage(a) ==
    /\ fault = "none"
    /\ IF ~enabled
       THEN /\ ret' = CallWith("readExponentialAverage", a, 0)
            /\ UNCHANGED << engine, fault, at_end, run, other, vecvars, begun, statics, slvars >>
       ELSE readExponentialAverageEnabled(a)

\* the median readMovingMedian computes from the synced window
MedianOf(win, window_size, rnd) ==
    getMedianFilters(InsertWindow(SkipList(window_size), win, 1, rnd))

readMovingMedian(window_size, rnd) ==
    /\ fault = "none"
    /\ IF ~enabled
       THEN /\ ret' = CallWith("readMovingMedian", window_size, 0)
            /\ UNCHANGED << engine, fault, at_end, run, other, vecvars, begun, statics, slvars >>
       ELSE IF ~window_updated /\ ErasesEmpty(window, window_size)
       THEN \* erase(begin()) of a vector without storage: undefined, the run ends here
            /\ fault' = "erase on an empty vector"
            /\ ret' = CallWith("readMovingMedian", window_size, 0)
            /\ UNCHANGED << engine, at_end, run, other, vecvars, begun, statics, slvars >>
       ELSE LET win == Synced(window_size)
                med == MedianOf(win, window_size, rnd)
            IN  /\ window' = win
                /\ moving_median' = med
                /\ window_updated' = TRUE
                /\ moving_median_calculated' = TRUE
                /\ ret' = CallWith("readMovingMedian", window_size, med)
                /\ UNCHANGED << enabled, input, cumulative_data,
                                simple_moving_average, cumulative_average,
                                weighted_moving_average,
                                exponential_moving_average,
                                simple_moving_average_calculated,
                                cumulative_average_calculated,
                                weighted_moving_average_calculated,
                                exponential_moving_average_calculated,
                                fault, at_end, run, other, vecvars, begun, statics, slvars >>

\* MovingAverage::MovingAverage
EngineInit ==
    /\ enabled = FALSE
    /\ window_updated = FALSE
    /\ simple_moving_average_calculated = FALSE
    /\ cumulative_average_calculated = FALSE
    /\ weighted_moving_average_calculated = FALSE
    /\ exponential_moving_average_calculated = FALSE
    /\ moving_median_calculated = FALSE
    /\ input = 0
    /\ simple_moving_average = 0
    /\ cumulative_average = 0
    /\ weighted_moving_average = 0
    /\ exponential_moving_average = 0
    /\ moving_median = 0
    /\ window = << >>
    /\ cumulative_data = << >>
    /\ fault = "none"
    /\ ret = Call("MovingAverage", 0)
    /\ at_end = << >>
    /\ begun = FALSE

\* the statics before their first use: zero-initialised, no window allocated
LegacyWindow == [num_elements |-> 0, cap |-> 0, window |-> << >>, sum |-> 0]

\* static uint16_t num_elements; static float average; of readCumulativeAverage.
\* The float is the fraction average[1] / average[2] in lowest terms; exact
\* tells that the float holds that fraction without a rounding error; seen
\* records the inputs of the enabled calls so far.
LegacyCumulative ==
    [num_elements |-> 0, average |-> << 0, 1 >>, exact |-> TRUE, seen |-> << >>]

StaticsInit ==
    /\ matches = 0
    /\ legacy = [readAverage |-> LegacyWindow, average |-> 0,
                 readCumulativeAverage |-> LegacyCumulative]

\* MovingAverage::detectedPeak, the same in both revisions; off_end is what the
\* caller finds when control leaves the function without a return statement
detectedPeak(threshold, consecutive_matches, off_end) ==
    /\ fault = "none"
    /\ IF ~enabled
       THEN ret' = CallWith("detectedPeak", << threshold, consecutive_matches >>, 0) /\ matches' = matches
       ELSE IF input >= threshold
       THEN LET m == (matches + 1) % 256 IN
            IF m >= consecutive_matches
            THEN matches' = 0 /\ ret' = CallWith("detectedPeak", << threshold, consecutive_matches >>, 1)
            ELSE matches' = m /\ ret' = CallWith("detectedPeak", << threshold, consecutive_matches >>, off_end)
       ELSE matches' = 0 /\ ret' = CallWith("detectedPeak", << threshold, consecutive_matches >>, 0)
    /\ UNCHANGED << engine, fault, at_end, run, other, vecvars, begun, legacy, slvars >>

\* ------------------------------------------------------------- src/MovingAverage.h
\* the revision whose reads keep their state in function-local statics
\* MovingAverage::MovingAverage() {}: no member is initialised
LegacyEngineInit ==
    /\ enabled \in BOOLEAN
    /\ input \in Indeterminate
    /\ simple_moving_average \in Indeterminate
    /\ cumulative_average \in Indeterminate
    /\ weighted_moving_average \in Indeterminate
    /\ exponential_moving_average \in Indeterminate
    /\ window_updated = FALSE
    /\ simple_moving_average_calculated = FALSE
    /\ cumulative_average_calculated = FALSE
    /\ weighted_moving_average_calculated = FALSE
    /\ exponential_moving_average_calculated = FALSE
    /\ moving_median_calculated = FALSE
    /\ moving_median = 0
    /\ window = << >>
    /\ cumulative_data = << >>
    /\ fault = "none"
    /\ ret = Call("MovingAverage", 0)
    /\ at_end = << >>
    /\ begun = FALSE

\* void add(T input) { this->input = input; }
addLegacy(in) ==
    /\ fault = "none"
    /\ input' = in
    /\ ret' = Call("add", 0)
    /\ at_end' = << >>
    /\ UNCHANGED << enabled, window_updated, calculated, averages, window,
                    cumulative_data, fault, run, other, vecvars, begun, statics, slvars >>

\* static U *window = new U[window_size]: done by the first call that gets there
LegacyAllocate(st, window_size) ==
    IF st.cap = 0 THEN [st EXCEPT !.cap = window_size] ELSE st

\* for (i = 0; i < window_size - 1; i++) of readAverage
RECURSIVE LegacyShift(_, _, _, _)
LegacyShift(win, sum, i, window_size) ==
    IF i >= window_size - 1
    THEN [window |-> win, sum |-> sum]
    ELSE LET s1 == ToU(sum - win[i + 1])
             w1 == [win EXCEPT ![i + 1] = win[i + 2]]
         IN  LegacyShift(w1, ToU(s1 + w1[i + 1]), i + 1, window_size)

\* the statics of readAverage after one enabled call; oob: the call wrote past
\* the end of the array the first call allocated
readAverageStatics(st0, in, window_size) ==
    LET st == LegacyAllocate(st0, window_size) IN
    IF st.num_elements < window_size
    THEN IF st.num_elements >= st.cap
         THEN [st |-> st, oob |-> TRUE]
         ELSE [st |-> [st EXCEPT !.window = Append(@, ToU(in)),
                                 !.sum = ToU(@ + in),
                                 !.num_elements = @ + 1],
               oob |-> FALSE]
    ELSE LET sh == LegacyShift(st.window, st.sum, 0, window_size)
             s1 == ToU(sh.sum - sh.window[window_size])
         IN  [st |-> [st EXCEPT !.window = [sh.window EXCEPT ![window_size] = ToU(in)],
                                 !.sum = ToU(s1 + ToU(in))],
               oob |-> FALSE]

readAverageLegacy(window_size) ==
    /\ fault = "none"
    /\ IF ~enabled
       THEN /\ ret' = Call("readAverage", 0)
            /\ UNCHANGED << simple_moving_average, legacy, fault >>
       ELSE LET r == readAverageStatics(legacy.readAverage, input, window_size) IN
            IF r.oob
            THEN /\ fault' = "write past the end of window"
                 /\ ret' = Call("readAverage", 0)
                 /\ UNCHANGED << simple_moving_average, legacy >>
            ELSE LET avg == ToU(TruncDiv(r.st.sum, r.st.num_elements)) IN
                 /\ legacy' = [legacy EXCEPT !.readAverage = r.st]
                 /\ simple_moving_average' = avg
                 /\ ret' = Call("readAverage", avg)
                 /\ fault' = fault
    /\ UNCHANGED << enabled, window_updated, calculated, input, window,
                    cumulative_data, cumulative_average, weighted_moving_average,
                    exponential_moving_average, moving_median, at_end, run, other, vecvars,
                    begun, matches, slvars >>

RECURSIVE GCD(_, _)
GCD(a, b) == IF b = 0 THEN a ELSE GCD(b, a % b)

\* the fraction n / d, d > 0, in lowest terms
Fraction(n, d) ==
    LET g == GCD(IF n < 0 THEN 0 - n ELSE n, d) IN << n \div g, d \div g >>

RECURSIVE IsPowerOfTwo(_)
IsPowerOfTwo(d) == d = 1 \/ (d % 2 = 0 /\ IsPowerOfTwo(d \div 2))

\* the statics of readCumulativeAverage after one enabled call
readCumulativeAverageStatics(st, in) ==
    LET n == st.num_elements + 1
        a == st.average
        avg == IF st.num_elements <= 2
               THEN Fraction(in * a[2] + a[1], a[2] * n)
               ELSE Fraction(in * a[2] + a[1] * (n - 1), a[2] * n)
    IN  [st EXCEPT !.num_elements = n,
                   !.average = avg,
                   !.exact = st.exact /\ IsPowerOfTwo(avg[2]),
                   !.seen = Append(@, in)]

\* U(average): truncation toward zero; a float that carries a rounding error
\* and stands for a whole number q > 0 may lie just below q (below == 1)
FloatToU(st, below) ==
    LET q == TruncDiv(st.average[1], st.average[2]) IN
    IF ~st.exact /\ st.average[2] = 1 /\ q > 0 THEN ToU(q - below) ELSE ToU(q)

readCumulativeAverageLegacy(below) ==
    /\ fault = "none"
    /\ IF ~enabled
       THEN /\ ret' = Call("readCumulativeAverage", 0)
            /\ UNCHANGED << cumulative_average, legacy >>
       ELSE LET st == readCumulativeAverageStatics(legacy.readCumulativeAverage, input)
                avg == FloatToU(st, below)
            IN  /\ legacy' = [legacy EXCEPT !.readCumulativeAverage = st]
                /\ cumulative_average' = avg
                /\ ret' = Call("readCumulativeAverage", avg)
    /\ UNCHANGED << enabled, window_updated, calculated, input, window,
                    cumulative_data, simple_moving_average, weighted_moving_average,
                    exponential_moving_average, moving_median, fault, at_end, run, other, vecvars,
                    begun, matches, slvars >>

\* smoothing_factor = a[1] / a[2], as in readExponentialAverage
readExponentialAverageLegacy(a) ==
    /\ fault = "none"
    /\ IF ~enabled
       THEN /\ ret' = CallWith("readExponentialAverage", a, 0)
            /\ UNCHANGED << exponential_moving_average, legacy >>
       ELSE LET avg == Blend(a, input, legacy.average)
            IN  /\ exponential_moving_average' = avg
                /\ legacy' = [legacy EXCEPT !.average = avg]
                /\ ret' = CallWith("readExponentialAverage", a, avg)
    /\ UNCHANGED << enabled, window_updated, calculated, input, window,
                    cumulative_data, simple_moving_average, cumulative_average,
                    weighted_moving_average, moving_median, fault, at_end, run, other, vecvars,
                    begun, matches, slvars >>

\* ------------------------------------------------------------- a second object
\* no second object in the program
OneObject == other = << >>

\* MovingAverage<T, U> b; of the same revision: its members are uninitialised too
OtherInit ==
    other \in [enabled : BOOLEAN, input : Indeterminate,
               exponential_moving_average : Indeterminate]

beginOther ==
    /\ fault = "none"
    /\ other' = [other EXCEPT !.enabled = TRUE]
    /\ ret' = Call("other.begin", 0)
    /\ UNCHANGED << engine, fault, at_end, run, vecvars, begun, statics, slvars >>

addOther(in) ==
    /\ fault = "none"
    /\ other' = [other EXCEPT !.input = in]
    /\ ret' = Call("other.add", 0)
    /\ UNCHANGED << engine, fault, at_end, run, vecvars, begun, statics, slvars >>

\* static U average is one object for every MovingAverage<T, U>
readExponentialAverageOther(a) ==
    /\ fault = "none"
    /\ IF ~other.enabled
       THEN /\ ret' = CallWith("other.readExponentialAverage", a, 0)
            /\ UNCHANGED << other, legacy >>
       ELSE LET avg == Blend(a, other.input, legacy.average)
            IN  /\ other' = [other EXCEPT !.exponential_moving_average = avg]
                /\ legacy' = [legacy EXCEPT !.average = avg]
                /\ ret' = CallWith("other.readExponentialAverage", a, avg)
    /\ UNCHANGED << engine, fault, at_end, run, vecvars, begun, matches, slvars >>

\* static uint8_t matches is one object for every MovingAverage<T, U>
detectedPeakOther(threshold, consecutive_matches, off_end) ==
    /\ fault = "none"
    /\ IF ~other.enabled
       THEN ret' = CallWith("other.detectedPeak", << threshold, consecutive_matches >>, 0) /\ matches' = matches
       ELSE IF other.input >= threshold
       THEN LET m == (matches + 1) % 256 IN
            IF m >= consecutive_matches
            THEN matches' = 0 /\ ret' = CallWith("other.detectedPeak", << threshold, consecutive_matches >>, 1)
            ELSE matches' = m /\ ret' = CallWith("other.detectedPeak", << threshold, consecutive_matches >>, off_end)
       ELSE matches' = 0 /\ ret' = CallWith("other.detectedPeak", << threshold, consecutive_matches >>, 0)
    /\ UNCHANGED << engine, fault, at_end, run, vecvars, begun, other, legacy, slvars >>

\* ------------------------------------------------------------- Vector calls
VectorInit ==
    /\ vec = EmptyVector
    /\ fifo = << >>

VPushBack(value, junk) ==
    /\ vec.size < MaxVectorSize
    /\ vec' = Vector_push_back(vec, value, junk)
    /\ fifo' = Append(fifo, value)
    /\ UNCHANGED << engine, fault, ret, at_end, run, other, begun, statics, slvars >>

\* erase(begin()), as updateWindow calls it on a full window
VEraseBegin ==
    /\ vec.size > 0
    /\ vec' = Vector_erase(vec, 0)
    /\ fifo' = Tail(fifo)
    /\ UNCHANGED << engine, fault, ret, at_end, run, other, begun, statics, slvars >>

\* ------------------------------------------------------------- skip list calls
SLCall(op, arg, flag, val) == [op |-> op, arg |-> arg, flag |-> flag, val |-> val]

SLInsert(val, rnd) ==
    /\ Len(sl.nodes) <= MaxAllocs
    /\ sl' = insert(sl, val, rnd).sl
    /\ sl_ret' = SLCall("insert", val, Len(sl'.nodes) > Len(sl.nodes), 0)
    /\ stored' = stored \cup {val}
    /\ UNCHANGED << engine, fault, ret, at_end, run, other, vecvars, begun, statics >>

SLRemove(val) ==
    /\ sl' = remove(sl, val).sl
    /\ sl_ret' = SLCall("remove", val, remove(sl, val).ret, 0)
    /\ stored' = stored \ {val}
    /\ UNCHANGED << engine, fault, ret, at_end, run, other, vecvars, begun, statics >>

\* flag: insert allocated a node; remove returned true; getMedian, at returned
\* a value (they did not throw)
SLGetMedian ==
    /\ sl_ret' = SLCall("getMedian", 0, ~getMedian(sl).thrown, getMedian(sl).value)
    /\ UNCHANGED << sl, stored, engine, fault, ret, at_end, run, other, vecvars, begun, statics >>

SLAt(index) ==
    /\ sl_ret' = SLCall("at", index, ~at(sl, index).thrown, at(sl, index).value)
    /\ UNCHANGED << sl, stored, engine, fault, ret, at_end, run, other, vecvars, begun, statics >>

\* the calls of examples/Filters/SkipList.h: flag is the bool at returned, val
\* its output argument after the call; getMedian always returns a value
SLGetMedianFilters ==
    /\ sl_ret' = SLCall("getMedianFilters", 0, TRUE, getMedianFilters(sl))
    /\ UNCHANGED << sl, stored, engine, fault, ret, at_end, run, other, vecvars, begun, statics >>

SLAtFilters(index) ==
    /\ sl_ret' = SLCall("atFilters", index, atFilters(sl, index, Untouched).ok,
                        atFilters(sl, index, Untouched).value)
    /\ UNCHANGED << sl, stored, engine, fault, ret, at_end, run, other, vecvars, begun, statics >>

\* the object's lifetime has not ended
Alive == sl.nodes[HeaderPtr].live

\* flag: the walk deleted no node a second time
SLDestructor ==
    /\ Alive
    /\ sl' = [sl EXCEPT !.nodes = destructor(sl).nodes]
    /\ sl_ret' = SLCall("~SkipList", 0, ~destructor(sl).twice, 0)
    /\ UNCHANGED << stored, engine, fault, ret, at_end, run, other, vecvars, begun, statics >>

\* one skip list kept beside the window: the value updateWindow erases from
\* the front of a full window is removed from the list, the value it pushes
\* is inserted; val is getMedian() after the step
pushIncremental(in, rnd) ==
    /\ Len(sl.nodes) <= MaxAllocs
    /\ window' = updateWindow(window, in, wfix)
    /\ LET evicted == IF Len(window) < wfix THEN sl ELSE remove(sl, Head(window)).sl
       IN  sl' = insert(evicted, ToU(in), rnd).sl
    /\ sl_ret' = SLCall("push", in, TRUE, getMedianFilters(sl'))
    /\ stored' = (IF Len(window) < wfix THEN stored ELSE stored \ {Head(window)})
                    \cup {ToU(in)}
    /\ UNCHANGED << enabled, window_updated, calculated, input, averages,
                    cumulative_data, fault, ret, at_end, run, other, vecvars, begun, statics >>

SLInit ==
    /\ sl_ret = SLCall("SkipList", 0, TRUE, 0)
    /\ stored = {}

\* ------------------------------------------------------------- specifications
\* the engine, every read with any window_size
Init ==
    /\ EngineInit
    /\ OneObject
    /\ size_bits = 16
    /\ StaticsInit
    /\ wfix = 0
    /\ sl = SkipList(0)
    /\ SLInit
    /\ VectorInit

Next ==
    \/ begin
    \/ end
    \/ \E in \in Values : Len(cumulative_data) < MaxAdds /\ add(in)
    \/ \E w \in WindowSizes : readAverage(w)
    \/ readCumulativeAverage
    \/ \E w \in WindowSizes : readWeightedAverage(w)
    \/ \E a \in HalfAlpha : readExponentialAverage(a)
    \/ \E w \in WindowSizes, rnd \in FirstCoins : readMovingMedian(w, rnd)

Spec == Init /\ [][Next]_vars

\* the engine, every windowed read with the same window_size
InitFixedW ==
    /\ EngineInit
    /\ OneObject
    /\ size_bits = 16
    /\ StaticsInit
    /\ wfix \in WindowSizesW
    /\ sl = SkipList(0)
    /\ SLInit
    /\ VectorInit

NextFixedW ==
    \/ begin
    \/ end
    \/ \E in \in Values : Len(cumulative_data) < MaxAddsW /\ add(in)
    \/ readAverage(wfix)
    \/ readWeightedAverage(wfix)
    \/ \E rnd \in MedianStreams : readMovingMedian(wfix, rnd)

SpecFixedW == InitFixedW /\ [][NextFixedW]_vars

\* the engine's moving median alone
NextMedian ==
    \/ begin
    \/ end
    \/ \E in \in ValuesW : Len(cumulative_data) < MaxAddsW /\ add(in)
    \/ \E w \in WindowSizesW, rnd \in MedianStreams : readMovingMedian(w, rnd)

SpecMedian == Init /\ [][NextMedian]_vars

\* the engine's reads that divide by a number of samples, window_size 0 included
NextNoData ==
    \/ begin
    \/ end
    \/ \E in \in Values : Len(cumulative_data) < MaxAdds /\ add(in)
    \/ \E w \in WindowSizes0 : readAverage(w)
    \/ readCumulativeAverage
    \/ \E w \in WindowSizes0 : readWeightedAverage(w)
    \/ \E w \in WindowSizes0, rnd \in MedianStreams : readMovingMedian(w, rnd)

SpecNoData == Init /\ [][NextNoData]_vars

\* the engine's averages of samples of either sign, on either kind of target;
\* in the other specifications the samples are non-negative, where the width
\* of size_t makes no difference to a quotient
InitSigned ==
    /\ EngineInit
    /\ OneObject
    /\ size_bits \in SizeTBits
    /\ StaticsInit
    /\ wfix = 0
    /\ sl = SkipList(0)
    /\ SLInit
    /\ VectorInit

NextSigned ==
    \/ begin
    \/ end
    \/ \E in \in SignedValues : Len(cumulative_data) < MaxAdds /\ add(in)
    \/ \E w \in WindowSizes : readAverage(w)
    \/ readCumulativeAverage
    \/ \E w \in WindowSizes : readWeightedAverage(w)

SpecSigned == InitSigned /\ [][NextSigned]_vars

\* the engine's exponential average, with a simple average beside it
NextExponential ==
    \/ begin
    \/ end
    \/ \E in \in ExpValues : Len(cumulative_data) < MaxAdds /\ add(in)
    \/ \E a \in Alphas : readExponentialAverage(a)
    \/ \E w \in WindowSizes : readAverage(w)

SpecExponential == Init /\ [][NextExponential]_vars

\* one SkipList object
InitSkipList ==
    /\ EngineInit
    /\ OneObject
    /\ size_bits = 16
    /\ StaticsInit
    /\ wfix = 0
    /\ \E max_lvl \in 0..MaxLevel : sl = SkipList(max_lvl)
    /\ SLInit
    /\ VectorInit

NextSkipList ==
    \/ \E val \in SLValues, rnd \in RandStreams : SLInsert(val, rnd)
    \/ \E val \in SLValues : SLRemove(val)
    \/ SLGetMedian
    \/ \E index \in Indexes : SLAt(index)
    \/ SLGetMedianFilters
    \/ \E index \in Indexes : SLAtFilters(index)

SpecSkipList == InitSkipList /\ [][NextSkipList]_vars

\* a window of window_size wfix with a skip list of max_lvl wfix kept beside it
InitIncremental ==
    /\ EngineInit
    /\ OneObject
    /\ size_bits = 16
    /\ StaticsInit
    /\ wfix \in WindowSizesW
    /\ sl = SkipList(wfix)
    /\ SLInit
    /\ VectorInit

NextIncremental ==
    \E in \in ValuesW, rnd \in MedianStreams : pushIncremental(in, rnd)

SpecIncremental == InitIncremental /\ [][NextIncremental]_vars

\* one Vector object used as the engine uses its window
NextVector ==
    \/ \E value \in ValuesW, junk \in Indeterminate : VPushBack(value, junk)
    \/ VEraseBegin

SpecVector == Init /\ [][NextVector]_vars

\* one SkipList object from its construction to its destruction
NextSkipListLife ==
    \/ \E val \in SLValues, rnd \in RandStreams : Alive /\ SLInsert(val, rnd)
    \/ \E val \in SLValues : Alive /\ SLRemove(val)
    \/ SLDestructor

SpecSkipListLife == InitSkipList /\ [][NextSkipListLife]_vars

\* an engine of src/MovingAverage.h with automatic storage duration
InitLegacy ==
    /\ LegacyEngineInit
    /\ OneObject
    /\ size_bits = 16
    /\ StaticsInit
    /\ wfix = 0
    /\ sl = SkipList(0)
    /\ SLInit
    /\ VectorInit

NextLegacy ==
    \/ begin
    \/ end
    \/ \E in \in Values : addLegacy(in)
    \/ \E w \in WindowSizes : readAverageLegacy(w)
    \/ \E a \in SomeAlphas : readExponentialAverageLegacy(a)
    \/ \E t \in Thresholds, k \in Consecutives, off_end \in {0, 1} :
          detectedPeak(t, k, off_end)

SpecLegacy == InitLegacy /\ [][NextLegacy]_vars

\* the cumulative average of the revision with static read state
NextCumulative ==
    \/ begin
    \/ end
    \/ \E in \in Values : addLegacy(in)
    \/ \E below \in {0, 1} :
          /\ legacy.readCumulativeAverage.num_elements < MaxCumulativeReads
          /\ readCumulativeAverageLegacy(below)

SpecCumulative == InitLegacy /\ [][NextCumulative]_vars

\* two objects of the revision with static read state
InitTwo ==
    /\ LegacyEngineInit
    /\ OtherInit
    /\ size_bits = 16
    /\ StaticsInit
    /\ wfix = 0
    /\ sl = SkipList(0)
    /\ SLInit
    /\ VectorInit

NextTwo ==
    \/ begin
    \/ \E in \in Values : addLegacy(in)
    \/ \E a \in SomeAlphas : readExponentialAverageLegacy(a)
    \/ \E t \in Thresholds, k \in Consecutives, off_end \in {0, 1} :
          detectedPeak(t, k, off_end)
    \/ beginOther
    \/ \E in \in Values : addOther(in)
    \/ \E a \in SomeAlphas : readExponentialAverageOther(a)
    \/ \E t \in Thresholds, k \in Consecutives, off_end \in {0, 1} :
          detectedPeakOther(t, k, off_end)

SpecTwo == InitTwo /\ [][NextTwo]_vars

\* ------------------------------------------------------------- properties
WindowedReads == {"readAverage", "readWeightedAverage", "readMovingMedian"}
Reads == WindowedReads \cup {"readCumulativeAverage", "readExponentialAverage"}

\* the last n elements of s
LastN(s, n) == SubSeq(s, Len(s) - n + 1, Len(s))

Range(s) == {s[i] : i \in 1..Len(s)}

\* new is old with the sample appended, the oldest element dropped or not
AppendsLatest(old, new, in) ==
    \/ new = Append(old, in)
    \/ old # << >> /\ new = Append(Tail(old), in)

\* the state an enabled windowed read has just left
AfterWindowedRead == ret.op \in WindowedReads /\ enabled

\* C1: after every enabled windowed read with the one window_size wfix, the
\* window is the last min(count, wfix) values passed to add, in arrival order,
\* count being the number of add calls so far.
C1_WindowIsLastSamples ==
    AfterWindowedRead =>
        window = LastN(cumulative_data, Min(Len(cumulative_data), wfix))

\* C2: with the one window_size wfix the window never holds more than wfix
\* elements, it holds at least one after every enabled windowed read, and a
\* sync that finds it holding wfix elements drops the oldest and appends the
\* latest input.
C2_WindowBound ==
    /\ [](Len(window) <= wfix /\ (AfterWindowedRead => Len(window) >= 1))
    /\ [][(ret'.op \in WindowedReads /\ enabled /\ ~window_updated
           /\ Len(window) = wfix)
          => window' = Append(Tail(window), input)]_vars

\* three samples were read one by one into a window of two: the first was evicted
C2_Witness ==
    /\ AfterWindowedRead
    /\ wfix = 2
    /\ cumulative_data = << 1, 2, 1 >>
    /\ window = << 2, 1 >>

\* C3: a windowed read that finds the engine enabled and the window stale
\* appends the latest input once and marks the window synced; every other
\* windowed read leaves the window as it is; only add marks it stale again.
C3_OneSyncPerAdd ==
    [][/\ ret'.op \in WindowedReads =>
            IF enabled /\ ~window_updated
            THEN AppendsLatest(window, window', input) /\ window_updated'
            ELSE window' = window /\ window_updated' = window_updated
       /\ (window_updated /\ ~window_updated') => ret'.op = "add"]_vars

\* one add, then the three windowed estimators: the sample is in the window once
C3_Witness ==
    /\ Len(cumulative_data) = 1
    /\ window = << input >>
    /\ simple_moving_average_calculated
    /\ weighted_moving_average_calculated
    /\ moving_median_calculated
    /\ window_updated

\* the elements of the finite set S of integers in increasing order
RECURSIVE SortedOf(_)
SortedOf(S) ==
    IF S = {} THEN << >>
    ELSE LET m == CHOOSE x \in S : \A y \in S : x <= y
         IN  << m >> \o SortedOf(S \ {m})

StrictlyIncreasing(s) == \A i \in 1..(Len(s) - 1) : s[i] < s[i + 1]

\* a is b with some elements left out
RECURSIVE IsSubseq(_, _)
IsSubseq(a, b) ==
    IF a = << >> THEN TRUE
    ELSE IF b = << >> THEN FALSE
    ELSE IF Head(a) = Head(b) THEN IsSubseq(Tail(a), Tail(b))
    ELSE IsSubseq(a, Tail(b))

\* s with every occurrence of v left out
Without(s, v) == SelectSeq(s, LAMBDA x : x # v)

\* C4: after any insert and remove calls the chain of every level 0..max_level
\* is strictly increasing, the chain of level 0 holds exactly the stored values,
\* each once, and the chain of level i+1 is a subsequence of the chain of level i.
C4_ChainsSorted ==
    /\ \A i \in 0..sl.max_level : StrictlyIncreasing(Chain(sl, i))
    /\ Chain(sl, 0) = SortedOf(stored)
    /\ \A i \in 0..(sl.max_level - 1) : IsSubseq(Chain(sl, i + 1), Chain(sl, i))

\* three values on two levels or more, the last call a remove that returned true
C4_Witness ==
    /\ sl_ret.op = "remove" /\ sl_ret.flag
    /\ Len(Chain(sl, 0)) = 2
    /\ sl.max_level >= 1
    /\ Len(Chain(sl, 1)) = 1
    /\ Len(sl.nodes) = 4

\* C5: insert(v) of an absent v adds v once to the chain of level 0 and nothing
\* else; insert(v) of a stored v allocates no node and leaves max_level and the
\* chain of every level as they were.
C5_InsertSetSemantics ==
    [][sl_ret'.op = "insert" =>
        IF sl_ret'.arg \in stored
        THEN /\ Len(sl'.nodes) = Len(sl.nodes)
             /\ sl'.max_level = sl.max_level
             /\ \A i \in 0..sl.max_level : Chain(sl', i) = Chain(sl, i)
        ELSE /\ Len(Chain(sl', 0)) = Len(Chain(sl, 0)) + 1
             /\ Range(Chain(sl', 0)) = Range(Chain(sl, 0)) \cup {sl_ret'.arg}
             /\ Without(Chain(sl', 0), sl_ret'.arg) = Chain(sl, 0)]_vars

\* the last call was an insert of a value already stored, into two levels
C5_Witness ==
    /\ sl_ret.op = "insert" /\ ~sl_ret.flag
    /\ sl_ret.arg \in stored
    /\ Cardinality(stored) = 2
    /\ sl.max_level >= 1
    /\ Len(Chain(sl, 1)) >= 1

\* C6: remove(v) returns true exactly when v is stored; it then takes v out of
\* the chain of every level and leaves the other values where they were; when
\* v is not stored it leaves max_level and every chain as they were.
C6_RemoveSemantics ==
    [][sl_ret'.op = "remove" =>
        /\ sl_ret'.flag = (sl_ret'.arg \in stored)
        /\ \A i \in 0..sl.max_level :
              /\ i <= sl'.max_level =>
                    Chain(sl', i) = Without(Chain(sl, i), sl_ret'.arg)
              /\ i > sl'.max_level => Without(Chain(sl, i), sl_ret'.arg) = << >>
        /\ ~sl_ret'.flag =>
              /\ sl'.max_level = sl.max_level
              /\ sl'.nodes = sl.nodes]_vars

\* a value was removed from between two others that are on level 1 too
C6_Witness ==
    /\ sl_ret.op = "remove" /\ sl_ret.flag /\ sl_ret.arg = 2
    /\ Chain(sl, 0) = << 1, 3 >>
    /\ sl.max_level >= 1
    /\ Chain(sl, 1) = << 1, 3 >>

\* C7: getMedian on n >= 1 stored values returns the value of rank n \div 2
\* (from 0) among them in increasing order, the upper one of the two middle
\* values when n is even, and leaves the list as it is.
C7_MedianRank ==
    [][sl_ret'.op = "getMedian" =>
        /\ sl' = sl
        /\ stored # {} =>
              /\ sl_ret'.flag
              /\ sl_ret'.val = SortedOf(stored)[(Cardinality(stored) \div 2) + 1]]_vars

\* getMedian of two values returned the larger one
C7_Witness ==
    /\ sl_ret.op = "getMedian" /\ sl_ret.flag
    /\ stored = {1, 3}
    /\ sl_ret.val = 3

\* s in non-decreasing order, repeated values kept
RECURSIVE InsertSorted(_, _)
InsertSorted(s, x) ==
    IF s = << >> THEN << x >>
    ELSE IF x <= Head(s) THEN << x >> \o s
    ELSE << Head(s) >> \o InsertSorted(Tail(s), x)

RECURSIVE SortedSeq(_)
SortedSeq(s) ==
    IF s = << >> THEN << >> ELSE InsertSorted(SortedSeq(Tail(s)), Head(s))

\* the state an enabled readMovingMedian has just left
AfterMedianRead == ret.op = "readMovingMedian" /\ enabled

\* C8: an enabled readMovingMedian returns the element at position n \div 2
\* (from 0) of the n values of the synced window in non-decreasing order,
\* repeated values kept.
C8_MedianOfWindow ==
    AfterMedianRead => ret.val = SortedSeq(window)[(Len(window) \div 2) + 1]

\* C9: an enabled readMovingMedian returns (and stores) the value of rank
\* d \div 2 (from 0) among the d distinct values of the synced window.
C9_MedianOfDistinct ==
    AfterMedianRead =>
        /\ ret.val = SortedOf(Range(window))[(Cardinality(Range(window)) \div 2) + 1]
        /\ moving_median = ret.val

\* the window 1, 1, 2 read as 2, the upper of its two distinct values
C9_Witness ==
    /\ AfterMedianRead
    /\ window = << 1, 1, 2 >>
    /\ ret.val = 2

\* C10: a read of a disabled engine returns 0 and changes no member of the
\* engine; begin() after end() and any reads gives back the engine as end()
\* found it.
C10_DisabledReads ==
    [][/\ (~enabled /\ ret'.op \in Reads) =>
            /\ ret'.val = 0
            /\ engine' = engine
            /\ fault' = fault
       /\ (ret'.op = "begin" /\ at_end # << >>) => engine' = at_end[1]]_vars

\* an engine with samples and averages, stopped by end(), then read
C10_Witness ==
    /\ ~enabled
    /\ at_end = << [engine EXCEPT ![1] = TRUE] >>
    /\ ret.op = "readExponentialAverage" /\ ret.val = 0
    /\ exponential_moving_average = 1
    /\ simple_moving_average = 2
    /\ window # << >>
    /\ ~window_updated

\* C11: the engine is disabled after construction, begin() enables it and
\* end() disables it, a repeated begin() or end() changes nothing, no other
\* operation changes the enabled flag, and a read before the first begin()
\* returns 0.
C11_TwoStates ==
    /\ ~enabled
    /\ [][/\ ret'.op = "begin" => enabled'
          /\ ret'.op = "end" => ~enabled'
          /\ (ret'.op \in {"begin", "end"} /\ enabled' = enabled) =>
                 engine' = engine
          /\ ret'.op \notin {"begin", "end"} => enabled' = enabled
          /\ (~begun /\ ret'.op \in Reads) => ret'.val = 0]_vars

\* C12: add(v), enabled or not, makes v the latest input, appends it to the
\* history, which grows by one, and marks the window stale; the window, the
\* enabled flag, the stored averages and the calculated flags stay as they are.
C12_AddEffect ==
    [][ret'.op = "add" =>
        /\ cumulative_data' = Append(cumulative_data, input')
        /\ Len(cumulative_data') = Len(cumulative_data) + 1
        /\ ~window_updated'
        /\ UNCHANGED << window, enabled, averages, calculated >>]_vars

\* a second sample added to a stopped engine that had read the first
C12_Witness ==
    /\ ret.op = "add"
    /\ ~enabled
    /\ cumulative_data = << 1, 2 >>
    /\ input = 2
    /\ window = << 1 >>
    /\ simple_moving_average_calculated
    /\ ~window_updated

\* C13: add(v) straight after add(v) leaves the engine as the first add(v)
\* left it, and no add advances the length of the history while the engine is
\* disabled.
C13_AddIdempotent ==
    [][ret'.op = "add" =>
        /\ (ret.op = "add" /\ input' = input) => engine' = engine
        /\ ~enabled => Len(cumulative_data') = Len(cumulative_data)]_vars

\* C14: at(index) on n stored values returns the value of rank index (from 0)
\* when 0 <= index < n; for every other index it returns no value: it throws
\* in src/SkipList.h, it returns false and leaves the output argument alone
\* in examples/Filters/SkipList.h.  The list is unchanged either way.
C14_AtRank ==
    [][sl_ret'.op \in {"at", "atFilters"} =>
        /\ sl' = sl
        /\ IF 0 <= sl_ret'.arg /\ sl_ret'.arg < Cardinality(stored)
           THEN /\ sl_ret'.flag
                /\ sl_ret'.val = SortedOf(stored)[sl_ret'.arg + 1]
           ELSE /\ ~sl_ret'.flag
                /\ sl_ret'.op = "atFilters" => sl_ret'.val = Untouched]_vars

\* at(2) on two stored values: the first index out of range
C14_Witness ==
    /\ sl_ret.op = "atFilters"
    /\ sl_ret.arg = 2
    /\ stored = {1, 3}
    /\ ~sl_ret.flag
    /\ sl_ret.val = Untouched

\* C15: getMedian on an empty list returns no value, in src/SkipList.h and in
\* examples/Filters/SkipList.h.
C15_EmptyMedianThrows ==
    (sl_ret.op \in {"getMedian", "getMedianFilters"} /\ stored = {}) =>
        ~sl_ret.flag

\* C16: no enabled read runs into an undefined operation for want of data:
\* not readCumulativeAverage on an empty history, not a windowed read with
\* window_size 0 on an empty window.
C16_EmptyReadsRecoverable == fault = "none"

\* C17: an enabled readAverage returns, and stores, the sum of the synced
\* window divided by its length, the quotient truncated toward zero.
C17_AverageIsMean ==
    (ret.op = "readAverage" /\ enabled /\ fault = "none") =>
        /\ ret.val = TruncDiv(SumSeq(window), Len(window))
        /\ simple_moving_average = ret.val

\* C18: an enabled readCumulativeAverage on a history of one sample or more
\* returns the sum of the history divided by its length, truncated toward
\* zero, and leaves window and window_updated as they are.
C18_CumulativeIsMean ==
    [][(ret'.op = "readCumulativeAverage" /\ enabled /\ cumulative_data # << >>) =>
        /\ ret'.val = TruncDiv(SumSeq(cumulative_data), Len(cumulative_data))
        /\ cumulative_data' = cumulative_data
        /\ window' = window
        /\ window_updated' = window_updated]_vars

\* the state an enabled readWeightedAverage has just left
AfterWeightedRead == ret.op = "readWeightedAverage" /\ enabled

\* 1 * s[1] + 2 * s[2] + ... + n * s[n]
RecencyWeighted(s) == SumSeq([i \in 1..Len(s) |-> i * s[i]])

Triangular(n) == (n * (n + 1)) \div 2

\* C19 as stated: an enabled readWeightedAverage(w) returns the window's values
\* weighted 1, 2, ... from the oldest to the newest, divided by w * (w + 1) / 2
\* for the window_size argument w, in the warm-up phase too.
C19_WeightedBySizeArgument ==
    AfterWeightedRead =>
        ret.val = TruncDiv(RecencyWeighted(window), Triangular(wfix))

\* C19, amended: an enabled readWeightedAverage(w) returns the window's values
\* weighted 1, 2, ... from the oldest to the newest, divided by the sum
\* n * (n + 1) / 2 of the weights of the n values the synced window holds; that
\* is w * (w + 1) / 2 once the window holds w values.
C19_WeightedByCount ==
    AfterWeightedRead =>
        /\ ret.val = TruncDiv(RecencyWeighted(window), Triangular(Len(window)))
        /\ weighted_moving_average = ret.val
        /\ Len(window) = wfix =>
              ret.val = TruncDiv(RecencyWeighted(window), Triangular(wfix))

\* warm-up: two samples in a window of three, 5 / 3 returned where 5 / 6 is 0
C19_Witness ==
    /\ AfterWeightedRead
    /\ wfix = 3
    /\ window = << 1, 2 >>
    /\ ret.val = 1

\* C20: a readAverage straight after a readWeightedAverage over the same
\* window of two or more strictly increasing values returns less than the
\* weighted read returned.
C20_RecencyBias ==
    [][(/\ ret.op = "readWeightedAverage" /\ enabled
        /\ ret'.op = "readAverage"
        /\ Len(window) >= 2 /\ StrictlyIncreasing(window)) =>
            ret.val > ret'.val]_vars

\* C21: an enabled readWeightedAverage with a window_size of 1 or less is
\* turned down: it computes and stores no weighted average and leaves the
\* engine as it found it.
C21_WeightedRejectsSmallWindow ==
    [][(ret'.op = "readWeightedAverage" /\ enabled /\ wfix <= 1) =>
        /\ engine' = engine
        /\ ~weighted_moving_average_calculated']_vars

Abs(x) == IF x < 0 THEN 0 - x ELSE x

\* a[1] / a[2] of x and the rest of prev, the sum truncated toward zero
ExpectedEma(a, x, prev) ==
    LET sum == a[1] * x + (a[2] - a[1]) * prev IN
    IF sum >= 0 THEN sum \div a[2] ELSE 0 - ((0 - sum) \div a[2])

\* the latest value passed to add, 0 when there was none
LatestSample ==
    IF cumulative_data = << >> THEN 0 ELSE cumulative_data[Len(cumulative_data)]

\* C22: the stored EMA starts at 0; an enabled readExponentialAverage(a) stores
\* and returns a * x + (1 - a) * ema_prev converted to U, x the latest input
\* and ema_prev the stored EMA; no other step changes the stored EMA.
C22_ExponentialStep ==
    /\ exponential_moving_average = 0
    /\ [][IF ret'.op = "readExponentialAverage" /\ enabled
          THEN /\ ret'.val = ExpectedEma(ret'.arg, input, exponential_moving_average)
               /\ exponential_moving_average' = ret'.val
          ELSE exponential_moving_average' = exponential_moving_average]_vars

\* half of -3 and half of 0, -1.5, stored as -1
C22_Witness ==
    /\ ret.op = "readExponentialAverage" /\ enabled
    /\ ret.arg = << 1, 2 >>
    /\ input = 0 - 3
    /\ ret.val = 0 - 1
    /\ exponential_moving_average = 0 - 1
    /\ Len(cumulative_data) = 1

\* C23: with a smoothing factor in (0, 1] every enabled exponential read
\* leaves the EMA no farther from the input than it was, and nearer whenever
\* it differed from the input.
C23_ExponentialConverges ==
    [][(ret'.op = "readExponentialAverage" /\ enabled /\ ret'.arg[1] > 0) =>
        /\ Abs(input - exponential_moving_average')
              <= Abs(input - exponential_moving_average)
        /\ exponential_moving_average # input =>
              Abs(input - exponential_moving_average')
                < Abs(input - exponential_moving_average)]_vars

\* C29: every enabled exponential read blends the latest sample into the
\* stored EMA once more, whether or not an add came since the read before: a
\* second read in a row with 0 < a < 1 moves an EMA that is 2 or more away
\* from the sample; samples before the latest have no part in the result.
C29_AdvancesOnRead ==
    [][(ret'.op = "readExponentialAverage" /\ enabled) =>
        /\ exponential_moving_average'
              = ExpectedEma(ret'.arg, LatestSample, exponential_moving_average)
        /\ (/\ ret.op = "readExponentialAverage"
            /\ 0 < ret'.arg[1] /\ ret'.arg[1] < ret'.arg[2]
            /\ Abs(LatestSample - exponential_moving_average) >= 2) =>
              exponential_moving_average' # exponential_moving_average]_vars

\* one add(8), then reads with a = 1/2 alone: 4, 6, 7
C29_Witness ==
    /\ ret.op = "readExponentialAverage" /\ enabled
    /\ ret.arg = << 1, 2 >>
    /\ cumulative_data = << 8 >>
    /\ exponential_moving_average = 7
    /\ ~simple_moving_average_calculated

OtherCalls ==
    {"other.begin", "other.add", "other.readExponentialAverage", "other.detectedPeak"}

\* C24: a call on the second object changes nothing of what a call on the
\* first would return next: neither the enabled exponential read, for any
\* smoothing factor, nor whether detectedPeak reports a peak, for any k.
C24_NoInterference ==
    [][(ret'.op \in OtherCalls /\ enabled) =>
        /\ \A a \in SomeAlphas :
              ExpectedEma(a, input, legacy'.average)
                = ExpectedEma(a, input, legacy.average)
        /\ \A t \in Thresholds, k \in Consecutives :
              input >= t => ((matches' + 1 >= k) <=> (matches + 1 >= k))]_vars

\* C27: an enabled detectedPeak(threshold, k) returns true when the input is
\* at or above the threshold and this call is the k-th such call in a row
\* since the counter was reset, and false on every other call; a disabled
\* call returns false and leaves the counter alone.
C27_PeakExactly ==
    [][ret'.op = "detectedPeak" =>
        IF enabled
        THEN ret'.val = (IF input >= ret'.arg[1] /\ matches + 1 >= ret'.arg[2]
                         THEN 1 ELSE 0)
        ELSE ret'.val = 0 /\ matches' = matches]_vars

\* C26: the k-th enabled readCumulativeAverage returns the mean of the k
\* inputs those calls have seen, as a U.
C26_LegacyCumulativeIsMean ==
    (ret.op = "readCumulativeAverage" /\ enabled) =>
        LET seen == legacy.readCumulativeAverage.seen IN
        ret.val = TruncDiv(SumSeq(seen), Len(seen))

\* C30: a new engine has window_updated false and input 0, so an enabled
\* windowed read before any add appends 0 to the empty window and marks it
\* synced; the window changes only in a read that finds window_updated false
\* and only add clears the flag, so the window holds at most one element
\* more than there were adds; the 0 leaves the window only when a sync of a
\* full window evicts it.
C30_PhantomSample ==
    /\ ~window_updated /\ input = 0 /\ window = << >>
    /\ [][/\ (/\ ret'.op \in WindowedReads /\ enabled
              /\ cumulative_data = << >> /\ window = << >>) =>
                window' = << 0 >> /\ window_updated'
          /\ window' # window =>
                ret'.op \in WindowedReads /\ enabled /\ ~window_updated
          /\ (window_updated /\ ~window_updated') => ret'.op = "add"
          /\ Len(window') <= Len(cumulative_data') + 1
          /\ (0 \in Range(window) /\ 0 \notin Range(window')) =>
                ret'.op \in WindowedReads /\ Len(window) >= wfix]_vars

\* a read before the first add, then two adds each followed by a read: the
\* window of size 3 holds the 0 and both samples
C30_Witness ==
    /\ ret.op \in WindowedReads /\ enabled
    /\ wfix = 3
    /\ cumulative_data = << 1, 2 >>
    /\ window = << 0, 1, 2 >>

\* the nodes allocated and not deleted
LiveNodes(list) == {n \in 1..Len(list.nodes) : list.nodes[n].live}

\* the nodes on the forward chain of level 0, from node p on
RECURSIVE NodesFrom(_, _)
NodesFrom(nodes, p) ==
    IF p = Null THEN {} ELSE {p} \cup NodesFrom(nodes, nodes[p].next[1])

\* C25: while the list lives its live nodes are the header and the nodes on
\* the chain of level 0, one for each value stored; a deleted node is never
\* live again and a call deletes one node at most; the destructor deletes
\* every live node, none of them twice.
C25_NodesReleasedOnce ==
    /\ [](Alive =>
            /\ LiveNodes(sl)
                 = {HeaderPtr} \cup NodesFrom(sl.nodes, sl.nodes[HeaderPtr].next[1])
            /\ Cardinality(LiveNodes(sl)) = 1 + Cardinality(stored))
    /\ [][/\ \A n \in 1..Len(sl.nodes) : sl'.nodes[n].live => sl.nodes[n].live
          /\ sl_ret'.op = "remove" =>
                Cardinality(LiveNodes(sl) \ LiveNodes(sl'))
                  = (IF sl_ret'.flag THEN 1 ELSE 0)
          /\ sl_ret'.op = "~SkipList" =>
                sl_ret'.flag /\ LiveNodes(sl') = {}]_vars

\* three nodes allocated beside the header, one of them removed before the
\* destructor ran
C25_Witness ==
    /\ sl_ret.op = "~SkipList"
    /\ Len(sl.nodes) = 4
    /\ Cardinality(stored) = 2
    /\ LiveNodes(sl) = {}

\* C28: after every push the skip list kept beside the window gives the
\* median a skip list built anew from the window gives, whatever the coin
\* flips of the new list.
C28_IncrementalIsRebuild ==
    sl_ret.op = "push" =>
        \A rnd \in MedianStreams : sl_ret.val = MedianOf(window, wfix, rnd)

\* C31: no step shortens the window; a sync with a window_size at or below
\* the window's length erases the first element and appends the input,
\* keeping the length, so that a window grown under a larger window_size
\* stays longer than a smaller window_size handed to a later read.
C31_WindowNeverShrinks ==
    [][/\ Len(window') >= Len(window)
       /\ (/\ ret'.op \in WindowedReads /\ enabled /\ ~window_updated
           /\ ret'.arg <= Len(window)) =>
             /\ window' = Append(Tail(window), input)
             /\ Len(window') = Len(window)]_vars

\* readAverage(1) on a window of two elements returns the mean of both
C31_Witness ==
    /\ ret.op = "readAverage" /\ enabled
    /\ ret.arg = 1
    /\ window = << 1, 2 >>
    /\ ret.val = 1

\* C32: on a target whose size_t has 32 bits an enabled readAverage or
\* readCumulativeAverage over a negative sum returns the signed quotient of
\* the sum by the number of elements, truncated toward zero.
C32_SignedQuotient ==
    (size_bits = 32 /\ enabled /\ fault = "none") =>
        /\ (ret.op = "readAverage" /\ SumSeq(window) < 0) =>
              ret.val = 0 - ((0 - SumSeq(window)) \div Len(window))
        /\ (ret.op = "readCumulativeAverage" /\ SumSeq(cumulative_data) < 0) =>
              ret.val = 0 - ((0 - SumSeq(cumulative_data)) \div Len(cumulative_data))

\* the entries of update that remove's relink loop reads, levels i up to
\* max_level, are inside the array, not null, and point to live nodes with a
\* forward link of level i
RECURSIVE RelinkReadsValid(_, _, _, _, _)
RelinkReadsValid(nodes, upd, current, i, max_level) ==
    IF i > max_level
    THEN TRUE
    ELSE /\ i + 1 <= Len(upd)
         /\ upd[i + 1] # Null
         /\ nodes[upd[i + 1]].live
         /\ Len(nodes[upd[i + 1]].next) >= i + 1
         /\ IF nodes[upd[i + 1]].next[i + 1] # current
            THEN TRUE
            ELSE RelinkReadsValid(
                     [nodes EXCEPT ![upd[i + 1]].next[i + 1] = nodes[current].next[i + 1]],
                     upd, current, i + 1, max_level)

\* remove(val) called on list reads valid entries of update only
RemoveReadsValid(list, val) ==
    LET s == RemoveSearch(list.nodes, list.update, HeaderPtr, list.max_level,
                          val, FALSE)
    IN  s.found =>
            /\ Len(list.update) >= list.max_level + 1
            /\ RelinkReadsValid(list.nodes, s.update,
                                list.nodes[s.update[1]].next[1], 0, list.max_level)

\* the live node that holds val
NodeOf(list, val) ==
    CHOOSE n \in LiveNodes(list) \ {HeaderPtr} : list.nodes[n].value = val

\* C33: whatever insert and remove calls came before, a remove of any value
\* reads in its relink loop only entries of update that are inside the
\* array, not null, and point to a node still allocated that has a forward
\* link of the level read.
C33_RemoveReadsValid ==
    \A val \in SLValues : RemoveReadsValid(sl, val)

\* a node has been deleted, and a stored value sits on fewer levels than the
\* list has: its remove reads an entry of update its search does not write
C33_Witness ==
    /\ \E n \in 1..Len(sl.nodes) : ~sl.nodes[n].live
    /\ \E val \in stored :
          /\ Len(sl.nodes[NodeOf(sl, val)].next) < sl.max_level + 1
          /\ RemoveReadsValid(sl, val)

\* the level a node was created with
LevelOf(list, n) == Len(list.nodes[n].next) - 1

\* every forward link of a live node leads to a live node that has a link of
\* the same level
LinksInRange(list) ==
    \A n \in LiveNodes(list) : \A i \in 1..Len(list.nodes[n].next) :
        LET m == list.nodes[n].next[i] IN
        m # Null => list.nodes[m].live /\ Len(list.nodes[m].next) >= i

\* C34: max_level never exceeds the level the header was built with, every
\* forward link followed on a level leads to a node that has that level, and
\* a node that insert creates gets a level from 0 to the max_level of that
\* moment, which the insert leaves as it is.
C34_LevelsWithinMaxLevel ==
    /\ [](/\ sl.max_level <= LevelOf(sl, HeaderPtr)
          /\ LinksInRange(sl))
    /\ [][(sl_ret'.op = "insert" /\ sl_ret'.flag) =>
            /\ LevelOf(sl', Len(sl'.nodes)) \in 0..sl.max_level
            /\ sl'.max_level = sl.max_level]_vars

\* an insert has just created a node of level 2 in a list of max_level 2
C34_Witness ==
    /\ sl_ret.op = "insert" /\ sl_ret.flag
    /\ sl.max_level = 2
    /\ LevelOf(sl, Len(sl.nodes)) = 2
    /\ Len(sl.nodes) = 3

\* C35: a remove that returns true leaves max_level at 0 or at a level whose
\* chain is not empty; a remove that returns false leaves max_level as it was.
C35_TopLevelNotEmpty ==
    [][sl_ret'.op = "remove" =>
        IF sl_ret'.flag
        THEN \/ sl'.max_level = 0
             \/ sl'.nodes[HeaderPtr].next[sl'.max_level + 1] # Null
        ELSE sl'.max_level = sl.max_level]_vars

\* a remove has lowered max_level from 2 to 1, where a node is left
C35_Witness ==
    /\ sl_ret.op = "remove" /\ sl_ret.flag
    /\ LevelOf(sl, HeaderPtr) = 2
    /\ sl.max_level = 1
    /\ sl.nodes[HeaderPtr].next[2] # Null
    /\ \E n \in 1..Len(sl.nodes) : ~sl.nodes[n].live

\* C36: no step raises max_level; a remove that empties the list leaves
\* max_level at 0; an insert into a list of max_level 0 creates a node of
\* level 0, so that from then on no node has a link above level 0.
C36_MaxLevelNeverGrows ==
    /\ [][/\ sl'.max_level <= sl.max_level
          /\ (/\ sl_ret'.op = "remove" /\ sl_ret'.flag
              /\ sl'.nodes[HeaderPtr].next[1] = Null) => sl'.max_level = 0
          /\ (sl.max_level = 0 /\ sl_ret'.op = "insert" /\ sl_ret'.flag) =>
                LevelOf(sl', Len(sl'.nodes)) = 0]_vars
    /\ [](sl.max_level = 0 =>
            \A n \in LiveNodes(sl) \ {HeaderPtr} : LevelOf(sl, n) = 0)

\* a list built with max_lvl 2 and emptied by remove has taken a new node,
\* of level 0
C36_Witness ==
    /\ sl_ret.op = "insert" /\ sl_ret.flag
    /\ LevelOf(sl, HeaderPtr) = 2
    /\ sl.max_level = 0
    /\ Cardinality(LiveNodes(sl)) = 2
    /\ \E n \in 1..Len(sl.nodes) : ~sl.nodes[n].live /\ n < Len(sl.nodes)

\* the list the same values make when every coin flip gives level 0
AllLevelZero(S) == InsertWindow(SkipList(0), SortedOf(S), 1, << >>)

\* C37: whatever levels the coin flips gave its nodes, the list answers as
\* the list of the same stored values with every node on level 0 does: the
\* same chain of level 0, the same return value of remove for every value,
\* the same getMedian and the same at(i) for every i; a median read of a
\* window of these values gives that median under every stream of flips.
C37_CoinsNotObservable ==
    Alive =>
    LET flat == AllLevelZero(stored) IN
    /\ Chain(sl, 0) = Chain(flat, 0)
    /\ \A val \in SLValues :
          /\ remove(sl, val).ret = remove(flat, val).ret
          /\ Chain(remove(sl, val).sl, 0) = Chain(remove(flat, val).sl, 0)
    /\ getMedian(sl) = getMedian(flat)
    /\ getMedianFilters(sl) = getMedianFilters(flat)
    /\ \A index \in Indexes :
          /\ at(sl, index) = at(flat, index)
          /\ atFilters(sl, index, Untouched) = atFilters(flat, index, Untouched)
    /\ \A rnd \in MedianStreams :
          MedianOf(SortedOf(stored), Cardinality(stored), rnd) = getMedianFilters(sl)

\* three values, one of them on level 2 and one on level 0 only
C37_Witness ==
    /\ sl_ret.op = "insert" /\ sl_ret.flag /\ Alive
    /\ Cardinality(stored) = 3
    /\ \E n \in LiveNodes(sl) \ {HeaderPtr} : LevelOf(sl, n) = 2
    /\ \E n \in LiveNodes(sl) \ {HeaderPtr} : LevelOf(sl, n) = 0

RepeatableReads == WindowedReads \cup {"readCumulativeAverage"}

\* what a read returns, from the synced window and the history alone
ReadValue(op, win, hist) ==
    CASE op = "readAverage" -> SumSeq(win) \div Len(win)
      [] op = "readCumulativeAverage" -> SumSeq(hist) \div Len(hist)
      [] op = "readWeightedAverage" ->
            RecencyWeighted(win) \div Triangular(Len(win))
      [] op = "readMovingMedian" ->
            SortedOf(Range(win))[(Cardinality(Range(win)) \div 2) + 1]

\* C38: an enabled read that follows a read of the same estimator directly
\* returns the value that read returned, whatever the window_size of either;
\* once a windowed read has synced the window no read changes the window or
\* the history, and what a read returns is decided by these two alone, not
\* by its window_size.
C38_RepeatedReads ==
    [][(ret'.op \in RepeatableReads /\ enabled /\ fault' = "none") =>
        /\ window_updated => (window' = window /\ window_updated')
        /\ cumulative_data' = cumulative_data
        /\ ret.op = ret'.op => ret'.val = ret.val
        /\ ret'.val = ReadValue(ret'.op, window', cumulative_data')]_vars

\* every estimator has been read on the window of two samples, the weighted
\* average last and with window_size 1
C38_Witness ==
    /\ ret.op = "readWeightedAverage" /\ enabled
    /\ ret.arg = 1 /\ ret.val = 1
    /\ window = << 1, 2 >> /\ window_updated
    /\ weighted_moving_average = 1
    /\ simple_moving_average_calculated /\ simple_moving_average = 1
    /\ moving_median_calculated /\ moving_median = 2
    /\ cumulative_average_calculated /\ cumulative_average = 1

\* C39: after any push_back and erase(begin()) calls the first size elements
\* of the vector's storage are the values pushed and not erased, oldest
\* first, and size is at most capacity, the length of the storage.
C39_VectorIsFifo ==
    /\ vec.size <= vec.capacity
    /\ Len(vec.data) = vec.capacity
    /\ vec.size = Len(fifo)
    /\ \A i \in 1..vec.size : vec.data[i] = fifo[i]

\* storage grown to 4 slots, three values pushed into it and the first
\* erased: the copy the erase left behind sits after the two elements
C39_Witness ==
    /\ vec.capacity = 4
    /\ vec.size = 2
    /\ fifo = << 1, 2 >>
    /\ vec.data[3] = 2

====
